---------------------------- MODULE Spec2Model ----------------------------
(***************************************************************************)
(* Ron voice assistant (src/Ron-ai.py): the command classifier, the        *)
(* command processor and the session loop of RonAI.run.                    *)
(*                                                                         *)
(* Text is modelled as a sequence of one-character strings, so that        *)
(* Python's substring test (`x in s`), str.lower, str.split and str.strip  *)
(* are computed character by character.                                    *)
(***************************************************************************)
EXTENDS Integers, Sequences, FiniteSets, TLC

\* ------------------------------------------------------------------ bounds
\* Greatest number of vocabulary words in an utterance given to the classifier.
MaxWords == 2
\* Greatest number of completed SpeechManager.listen calls in one run.
MaxCaptures == 3
\* Greatest number of interruption signals (Ctrl-C) delivered in one run.
MaxInterrupts == 2
\* Greatest number of SpeechManager.speak calls made by concurrent callers.
MaxCalls == 3
\* Greatest number of process calls made by a caller of CommandProcessor.
MaxCommands == 2

VARIABLES
    pc,               \* position of the main thread in run / handle_activation / process
    is_running,       \* RonAI.is_running
    wake_words,       \* UserPreference.wake_words, as loaded at start
    platform,         \* sys.platform
    text,             \* run: result of the last wake-phrase capture
    command,          \* handle_activation: result of the last command capture
    cmd_type,         \* process: the category classify_command returned
    should_continue,  \* handle_activation: what process returned
    command_history,  \* CommandProcessor.command_history
    context,          \* CommandProcessor.context
    pattern_table,    \* CommandProcessor.command_patterns, the attribute
    classified,       \* every classify_command call so far: utterance and result
    spoken,           \* every SpeechManager.speak call so far, in order
    dispatched,       \* the (category, command) pairs handed to a handler, in order
    handlerOutcome,   \* how the last dispatched handler ended
    captures,         \* number of completed listen calls
    silent,           \* consecutive wake-phrase captures that returned nothing
    interrupts,       \* number of interruption signals delivered
    shutdownCalls,    \* number of calls of RonAI.shutdown
    prefsSaved,       \* whether save_preferences wrote the preferences file
    tts_lock,         \* SpeechManager.tts_lock is held
    calls,            \* the speak calls of concurrent callers: mode and position
    requests          \* the speak calls of concurrent callers, in the order made

vars == <<pc, is_running, wake_words, platform, text, command, cmd_type,
          should_continue, command_history, spoken, dispatched, handlerOutcome,
          captures, silent, interrupts, shutdownCalls, prefsSaved,
          context, pattern_table, classified, tts_lock, calls, requests>>

\* ------------------------------------------------------------------- text
\* str.lower on one character.
LowerChar(c) ==
    CASE c = "A" -> "a" [] c = "B" -> "b" [] c = "C" -> "c" [] c = "D" -> "d"
      [] c = "E" -> "e" [] c = "F" -> "f" [] c = "G" -> "g" [] c = "H" -> "h"
      [] c = "I" -> "i" [] c = "J" -> "j" [] c = "K" -> "k" [] c = "L" -> "l"
      [] c = "M" -> "m" [] c = "N" -> "n" [] c = "O" -> "o" [] c = "P" -> "p"
      [] c = "Q" -> "q" [] c = "R" -> "r" [] c = "S" -> "s" [] c = "T" -> "t"
      [] c = "U" -> "u" [] c = "V" -> "v" [] c = "W" -> "w" [] c = "X" -> "x"
      [] c = "Y" -> "y" [] c = "Z" -> "z" [] OTHER -> c

\* str.lower
lower(s) == [i \in 1..Len(s) |-> LowerChar(s[i])]

\* Python's `sub in s` on strings: sub occurs in s as a contiguous substring
\* (the empty string occurs in every string).
In(sub, s) ==
    \E i \in 0..(Len(s) - Len(sub)) : \A j \in 1..Len(sub) : s[i + j] = sub[j]

\* any(p in s for p in patterns)
AnyIn(patterns, s) == \E i \in 1..Len(patterns) : In(patterns[i], s)

\* The value None (listen's result when nothing was recognised).
None == <<"<None>">>

\* Python truthiness of listen's result: None and "" are false.
Truthy(t) == t # None /\ t # <<>>

\* ------------------------------------------------------------- classifier
\* class CommandType(Enum): the values.
CommandType ==
    {"time", "date", "weather", "search", "open_app", "system", "volume",
     "music", "info", "smart_home", "reminder", "note", "unknown"}

\* Variant of command_patterns: the table has an entry for CommandType.SYSTEM.
command_patterns_WithSystem ==
    << [type |-> "time",       patterns |-> << <<"t", "i", "m", "e">>, <<"c", "l", "o", "c", "k">>, <<"w", "h", "a", "t", " ", "t", "i", "m", "e">> >>],
       [type |-> "date",       patterns |-> << <<"d", "a", "t", "e">>, <<"d", "a", "y">>, <<"w", "h", "a", "t", " ", "d", "a", "y">> >>],
       [type |-> "weather",    patterns |-> << <<"w", "e", "a", "t", "h", "e", "r">>, <<"t", "e", "m", "p", "e", "r", "a", "t", "u", "r", "e">>, <<"f", "o", "r", "e", "c", "a", "s", "t">> >>],
       [type |-> "search",     patterns |-> << <<"s", "e", "a", "r", "c", "h">>, <<"g", "o", "o", "g", "l", "e">>, <<"l", "o", "o", "k", " ", "u", "p">>, <<"f", "i", "n", "d">> >>],
       [type |-> "open_app",   patterns |-> << <<"o", "p", "e", "n">>, <<"l", "a", "u", "n", "c", "h">>, <<"s", "t", "a", "r", "t">> >>],
       [type |-> "volume",     patterns |-> << <<"v", "o", "l", "u", "m", "e">>, <<"s", "o", "u", "n", "d">>, <<"m", "u", "t", "e">>, <<"u", "n", "m", "u", "t", "e">> >>],
       [type |-> "music",      patterns |-> << <<"p", "l", "a", "y", " ", "m", "u", "s", "i", "c">>, <<"p", "a", "u", "s", "e", " ", "m", "u", "s", "i", "c">>, <<"s", "t", "o", "p", " ", "m", "u", "s", "i", "c">>,
                                               <<"n", "e", "x", "t", " ", "s", "o", "n", "g">> >>],
       [type |-> "info",       patterns |-> << <<"t", "e", "l", "l", " ", "m", "e", " ", "a", "b", "o", "u", "t">>, <<"w", "h", "a", "t", " ", "i", "s">>, <<"w", "h", "o", " ", "i", "s">>,
                                               <<"d", "e", "f", "i", "n", "e">> >>],
       [type |-> "smart_home", patterns |-> << <<"l", "i", "g", "h", "t", "s">>, <<"t", "e", "m", "p", "e", "r", "a", "t", "u", "r", "e">>, <<"t", "h", "e", "r", "m", "o", "s", "t", "a", "t">>,
                                               <<"l", "o", "c", "k">>, <<"u", "n", "l", "o", "c", "k">> >>],
       [type |-> "reminder",   patterns |-> << <<"r", "e", "m", "i", "n", "d">>, <<"r", "e", "m", "i", "n", "d", "e", "r">>, <<"a", "l", "e", "r", "t", " ", "m", "e">> >>],
       [type |-> "note",       patterns |-> << <<"n", "o", "t", "e">>, <<"w", "r", "i", "t", "e", " ", "d", "o", "w", "n">>, <<"r", "e", "m", "e", "m", "b", "e", "r", " ", "t", "h", "i", "s">> >>],
       [type |-> "system",     patterns |-> << <<"s", "y", "s", "t", "e", "m">>, <<"h", "e", "l", "l", "o">> >>] >>

\* The dict literal __init__ assigns to command_patterns, in insertion order.
command_patterns ==
    << [type |-> "time",       patterns |-> << <<"t", "i", "m", "e">>, <<"c", "l", "o", "c", "k">>, <<"w", "h", "a", "t", " ", "t", "i", "m", "e">> >>],
       [type |-> "date",       patterns |-> << <<"d", "a", "t", "e">>, <<"d", "a", "y">>, <<"w", "h", "a", "t", " ", "d", "a", "y">> >>],
       [type |-> "weather",    patterns |-> << <<"w", "e", "a", "t", "h", "e", "r">>, <<"t", "e", "m", "p", "e", "r", "a", "t", "u", "r", "e">>, <<"f", "o", "r", "e", "c", "a", "s", "t">> >>],
       [type |-> "search",     patterns |-> << <<"s", "e", "a", "r", "c", "h">>, <<"g", "o", "o", "g", "l", "e">>, <<"l", "o", "o", "k", " ", "u", "p">>, <<"f", "i", "n", "d">> >>],
       [type |-> "open_app",   patterns |-> << <<"o", "p", "e", "n">>, <<"l", "a", "u", "n", "c", "h">>, <<"s", "t", "a", "r", "t">> >>],
       [type |-> "volume",     patterns |-> << <<"v", "o", "l", "u", "m", "e">>, <<"s", "o", "u", "n", "d">>, <<"m", "u", "t", "e">>, <<"u", "n", "m", "u", "t", "e">> >>],
       [type |-> "music",      patterns |-> << <<"p", "l", "a", "y", " ", "m", "u", "s", "i", "c">>, <<"p", "a", "u", "s", "e", " ", "m", "u", "s", "i", "c">>, <<"s", "t", "o", "p", " ", "m", "u", "s", "i", "c">>,
                                               <<"n", "e", "x", "t", " ", "s", "o", "n", "g">> >>],
       [type |-> "info",       patterns |-> << <<"t", "e", "l", "l", " ", "m", "e", " ", "a", "b", "o", "u", "t">>, <<"w", "h", "a", "t", " ", "i", "s">>, <<"w", "h", "o", " ", "i", "s">>,
                                               <<"d", "e", "f", "i", "n", "e">> >>],
       [type |-> "smart_home", patterns |-> << <<"l", "i", "g", "h", "t", "s">>, <<"t", "e", "m", "p", "e", "r", "a", "t", "u", "r", "e">>, <<"t", "h", "e", "r", "m", "o", "s", "t", "a", "t">>,
                                               <<"l", "o", "c", "k">>, <<"u", "n", "l", "o", "c", "k">> >>],
       [type |-> "reminder",   patterns |-> << <<"r", "e", "m", "i", "n", "d">>, <<"r", "e", "m", "i", "n", "d", "e", "r">>, <<"a", "l", "e", "r", "t", " ", "m", "e">> >>],
       [type |-> "note",       patterns |-> << <<"n", "o", "t", "e">>, <<"w", "r", "i", "t", "e", " ", "d", "o", "w", "n">>, <<"r", "e", "m", "e", "m", "b", "e", "r", " ", "t", "h", "i", "s">> >>] >>

\* The for loop of classify_command over self.command_patterns.items()
\* from entry i on: the first entry one of whose patterns occurs in
\* command_lower, CommandType.UNKNOWN when none does.
RECURSIVE ClassifyFrom(_, _)
ClassifyFrom(i, command_lower) ==
    IF i > Len(pattern_table) THEN "unknown"
    ELSE IF AnyIn(pattern_table[i].patterns, command_lower)
         THEN pattern_table[i].type
         ELSE ClassifyFrom(i + 1, command_lower)

\* Variant of the loop that keeps the last matching entry instead of the first.
RECURSIVE ClassifyBack(_, _)
ClassifyBack(i, command_lower) ==
    IF i < 1 THEN "unknown"
    ELSE IF AnyIn(pattern_table[i].patterns, command_lower)
         THEN pattern_table[i].type
         ELSE ClassifyBack(i - 1, command_lower)

\* Variant of classify_command: last match wins.
classify_last_match(c) == ClassifyBack(Len(pattern_table), lower(c))

\* Variant of classify_command: the utterance is not lower-cased.
classify_no_lower(c) == ClassifyFrom(1, c)

\* Variant of classify_command: an utterance no pattern claims is given the
\* category of the command processed before it.
classify_with_context(c) ==
    IF ClassifyFrom(1, lower(c)) = "unknown" /\ command_history # <<>>
    THEN cmd_type
    ELSE ClassifyFrom(1, lower(c))

\* CommandProcessor.classify_command
classify_command(c) == ClassifyFrom(1, lower(c))

\* ------------------------------------------------------ more string methods
\* Index (from 0) of the first occurrence of sep in s; sep occurs in s.
FirstIndex(sep, s) ==
    CHOOSE i \in 0..(Len(s) - Len(sep)) :
        /\ SubSeq(s, i + 1, i + Len(sep)) = sep
        /\ \A j \in 0..(i - 1) : SubSeq(s, j + 1, j + Len(sep)) # sep

\* s.split(sep)[-1]: what follows the last of the occurrences of sep that
\* split finds scanning from the left; s itself when sep does not occur.
RECURSIVE SplitLast(_, _)
SplitLast(s, sep) ==
    IF ~In(sep, s) THEN s
    ELSE SplitLast(SubSeq(s, FirstIndex(sep, s) + Len(sep) + 1, Len(s)), sep)

RECURSIVE lstrip(_)
lstrip(s) == IF s # <<>> /\ Head(s) = " " THEN lstrip(Tail(s)) ELSE s

RECURSIVE rstrip(_)
rstrip(s) ==
    IF s # <<>> /\ s[Len(s)] = " " THEN rstrip(SubSeq(s, 1, Len(s) - 1)) ELSE s

\* str.strip
strip(s) == rstrip(lstrip(s))

\* The first term of terms that occurs in s, <<>> when none does
\* (the `for term in terms: if term in s: ... break` loops of the handlers).
RECURSIVE FirstTerm(_, _, _)
FirstTerm(terms, s, i) ==
    IF i > Len(terms) THEN <<>>
    ELSE IF In(terms[i], s) THEN terms[i] ELSE FirstTerm(terms, s, i + 1)

\* query = command.lower(); for term in terms: if term in query:
\*     query = query.split(term)[-1].strip(); break
Extract(terms, c) ==
    LET q    == lower(c)
        term == FirstTerm(terms, q, 1)
    IN  IF term = <<>> THEN q ELSE strip(SplitLast(q, term))

\* --------------------------------------------------------------- responses
\* One SpeechManager.speak call: the fixed wording and the text formatted
\* into it ("<time>", "<date>", "<report>" stand for values read from the
\* clock or the weather service).
Say(m) == [msg |-> m, arg |-> <<>>]
SayArg(m, a) == [msg |-> m, arg |-> a]

\* How a handler call ends: it returns (ended = "ok"), it returns after its
\* own `except Exception` block ran ("failed"), or an exception leaves it
\* ("raised"); says = what it spoke, in order.
Ended(e, says) == [ended |-> e, says |-> says]

\* ---------------------------------------------------------------- handlers
_handle_time(c) == {Ended("ok", <<Say("It's <time>")>>)}

_handle_date(c) == {Ended("ok", <<Say("Today is <date>")>>)}

\* city = preferences.city, or what follows the last "in" of the command.
WeatherCity(c) == IF In(<<"i", "n">>, c) THEN strip(SplitLast(c, <<"i", "n">>)) ELSE <<"N", "e", "w", " ", "Y", "o", "r", "k">>

\* The outcomes are those of get_api_key and of requests.get.
_handle_weather(c) ==
    { Ended("ok", <<Say("Weather service is not configured. Please set up your API key.")>>),
      Ended("ok", <<SayArg("The weather in {city} is <report>", WeatherCity(c))>>),
      Ended("ok", <<SayArg("Sorry, I couldn't get weather information for {city}.",
                           WeatherCity(c))>>),
      Ended("failed", <<Say("Weather service is currently unavailable.")>>),
      Ended("failed", <<Say("Sorry, I couldn't get the weather.")>>) }

\* Variant of search_terms: the one-word term is tried before 'search for'.
search_terms_ShortFirst == << <<"s", "e", "a", "r", "c", "h">>, <<"s", "e", "a", "r", "c", "h", " ", "f", "o", "r">>, <<"g", "o", "o", "g", "l", "e">>, <<"l", "o", "o", "k", " ", "u", "p">>, <<"f", "i", "n", "d">> >>

search_terms == << <<"s", "e", "a", "r", "c", "h", " ", "f", "o", "r">>, <<"g", "o", "o", "g", "l", "e">>, <<"s", "e", "a", "r", "c", "h">>, <<"l", "o", "o", "k", " ", "u", "p">>, <<"f", "i", "n", "d">> >>

\* webbrowser.open may fail.
_handle_search(c) ==
    LET query == Extract(search_terms, c)
    IN  IF query # <<>> /\ query # lower(c)
        THEN { Ended("ok", <<SayArg("I've opened search results for {query}", query)>>),
               Ended("failed", <<Say("Sorry, I couldn't perform the search.")>>) }
        ELSE { Ended("ok", <<Say("What would you like me to search for?")>>) }

\* The keys of apps, in insertion order.
apps == << <<"c", "a", "l", "c", "u", "l", "a", "t", "o", "r">>, <<"n", "o", "t", "e", "p", "a", "d">>, <<"b", "r", "o", "w", "s", "e", "r">>, <<"t", "e", "r", "m", "i", "n", "a", "l">>, <<"s", "e", "t", "t", "i", "n", "g", "s">> >>

\* The loop over apps from entry i on. os.system does not raise; on Linux
\* subprocess.Popen raises when the program does not exist, the error is
\* logged and the loop goes on to the next entry.
RECURSIVE OpenFrom(_, _, _)
OpenFrom(i, c, plat) ==
    IF i > Len(apps)
    THEN {Ended("ok", <<Say("I'm not sure which application to open.")>>)}
    ELSE IF In(apps[i], lower(c))
         THEN {Ended("ok", <<SayArg("Opening {app_name}", apps[i])>>)}
              \cup (IF plat \in {"win32", "darwin"} THEN {} ELSE OpenFrom(i + 1, c, plat))
         ELSE OpenFrom(i + 1, c, plat)

_handle_open_app(c, plat) == OpenFrom(1, c, plat)

\* Variant of VolumeChain: 'unmute' is tested before 'mute'.
VolumeChain_UnmuteFirst(c) ==
    IF In(<<"u", "p">>, c) \/ In(<<"i", "n", "c", "r", "e", "a", "s", "e">>, c) THEN <<Say("Volume increased")>>
    ELSE IF In(<<"d", "o", "w", "n">>, c) \/ In(<<"d", "e", "c", "r", "e", "a", "s", "e">>, c) THEN <<Say("Volume decreased")>>
    ELSE IF In(<<"u", "n", "m", "u", "t", "e">>, c) THEN <<Say("Unmuted")>>
    ELSE IF In(<<"m", "u", "t", "e">>, c) THEN <<Say("Muted")>>
    ELSE <<>>

\* The if/elif chain of one platform branch: it has no else, so a command
\* naming no direction and no mute word is answered by nothing.
VolumeChain(c) ==
    IF In(<<"u", "p">>, c) \/ In(<<"i", "n", "c", "r", "e", "a", "s", "e">>, c) THEN <<Say("Volume increased")>>
    ELSE IF In(<<"d", "o", "w", "n">>, c) \/ In(<<"d", "e", "c", "r", "e", "a", "s", "e">>, c) THEN <<Say("Volume decreased")>>
    ELSE IF In(<<"m", "u", "t", "e">>, c) THEN <<Say("Muted")>>
    ELSE IF In(<<"u", "n", "m", "u", "t", "e">>, c) THEN <<Say("Unmuted")>>
    ELSE <<>>

_handle_volume(c, plat) ==
    IF plat \in {"win32", "darwin"}
    THEN {Ended("ok", VolumeChain(c))}
    ELSE {Ended("ok", <<Say("Volume control is not configured for this system.")>>)}

\* webbrowser.open may fail.
_handle_music(c) ==
    IF In(<<"p", "l", "a", "y">>, c)
    THEN { Ended("ok", <<Say("Opening YouTube Music")>>),
           Ended("failed", <<Say("Sorry, I couldn't control music playback.")>>) }
    ELSE IF In(<<"p", "a", "u", "s", "e">>, c) \/ In(<<"s", "t", "o", "p">>, c)
    THEN {Ended("ok", <<Say("Music control requires integration with your music player.")>>)}
    ELSE {Ended("ok", <<Say("Please specify what you'd like to do with music.")>>)}

info_terms == << <<"t", "e", "l", "l", " ", "m", "e", " ", "a", "b", "o", "u", "t">>, <<"w", "h", "a", "t", " ", "i", "s">>, <<"w", "h", "o", " ", "i", "s">>, <<"d", "e", "f", "i", "n", "e">> >>

\* webbrowser.open may fail.
_handle_info(c) ==
    LET topic == Extract(info_terms, c)
    IN  IF topic # <<>> /\ topic # lower(c)
        THEN { Ended("ok", <<SayArg("I've opened information about {topic}", topic)>>),
               Ended("failed", <<Say("Sorry, I couldn't find that information.")>>) }
        ELSE { Ended("ok", <<Say("What would you like to know about?")>>) }

_handle_smart_home(c) ==
    IF In(<<"l", "i", "g", "h", "t", "s", " ", "o", "n">>, c)
    THEN {Ended("ok", <<Say("I would turn on the lights if connected to your smart home system.")>>)}
    ELSE IF In(<<"l", "i", "g", "h", "t", "s", " ", "o", "f", "f">>, c)
    THEN {Ended("ok", <<Say("I would turn off the lights if connected to your smart home system.")>>)}
    ELSE IF In(<<"t", "e", "m", "p", "e", "r", "a", "t", "u", "r", "e">>, c)
    THEN {Ended("ok", <<Say("Temperature control requires smart home integration.")>>)}
    ELSE {Ended("ok", <<Say("Smart home features require additional setup.")>>)}

_handle_reminder(c) ==
    IF In(<<"r", "e", "m", "i", "n", "d", " ", "m", "e", " ", "t", "o">>, c)
    THEN {Ended("ok", <<SayArg("I'll remind you to {task}. Note: Reminder system needs to be configured.",
                               strip(SplitLast(c, <<"r", "e", "m", "i", "n", "d", " ", "m", "e", " ", "t", "o">>)))>>)}
    ELSE {Ended("ok", <<Say("What would you like me to remind you about?")>>)}

note_terms == << <<"n", "o", "t", "e", " ", "t", "h", "a", "t">>, <<"w", "r", "i", "t", "e", " ", "d", "o", "w", "n">>, <<"r", "e", "m", "e", "m", "b", "e", "r">> >>

\* Creating or writing the note file may fail.
_handle_note(c) ==
    LET note == Extract(note_terms, c)
    IN  IF note # <<>> /\ note # lower(c)
        THEN { Ended("ok", <<SayArg("I've saved your note: {note}", note)>>),
               Ended("failed", <<Say("Sorry, I couldn't save that note.")>>) }
        ELSE { Ended("ok", <<Say("What would you like me to note down?")>>) }

\* Variant of _handle_unknown: it says nothing.
_handle_unknown_Silent(c) == {Ended("ok", <<>>)}

_handle_unknown(c) ==
    {Ended("ok", <<Say("I'm not sure how to help with that. Could you please rephrase?")>>)}

\* handlers.get(cmd_type, self._handle_unknown)(command): the ways the call
\* can end.  Besides the endings of the handler's own code, an exception can
\* leave a handler that has an except block (raised while that block logs
\* the error it caught); process then catches it.  _handle_unknown is one
\* speak call, which catches every Exception itself.
handlers(t, c, plat) ==
    (CASE t = "time"       -> _handle_time(c)
       [] t = "date"       -> _handle_date(c)
       [] t = "weather"    -> _handle_weather(c)
       [] t = "search"     -> _handle_search(c)
       [] t = "open_app"   -> _handle_open_app(c, plat)
       [] t = "volume"     -> _handle_volume(c, plat)
       [] t = "music"      -> _handle_music(c)
       [] t = "info"       -> _handle_info(c)
       [] t = "smart_home" -> _handle_smart_home(c)
       [] t = "reminder"   -> _handle_reminder(c)
       [] t = "note"       -> _handle_note(c)
       [] OTHER            -> _handle_unknown(c))
    \cup (IF t \in {"time", "date", "weather", "search", "open_app", "volume", "music",
                    "info", "smart_home", "reminder", "note"}
          THEN {Ended("raised", <<>>)}
          ELSE {})

\* ---------------------------------------------------------------- speaking
\* Variant of speak: every caller passes wait=False, so the call returns
\* once the thread that will render the text is started.
speak_NoWait(r) ==
    /\ spoken' = Append(spoken, r)
    /\ \E c \in DOMAIN calls :
          /\ calls[c].at = "idle"
          /\ \A d \in 1..(c - 1) : calls[d].at # "idle"
          /\ calls' = [calls EXCEPT ![c] = [wait |-> FALSE, at |-> "start"]]
          /\ requests' = Append(requests, c)
    /\ UNCHANGED tts_lock

\* SpeechManager.speak(text) with wait=True, as every caller in this file
\* calls it, on the main thread: _speak takes the lock (free, as no other
\* thread speaks), the text is printed and said, an error of the engine is
\* logged, never raised, and the lock is released before the call returns.
speak(r) ==
    /\ ~tts_lock
    /\ spoken' = Append(spoken, r)
    /\ UNCHANGED <<tts_lock, calls, requests>>

\* ---------------------------------------------------------------- listening
\* What the recogniser can return for what is said while the session waits
\* for the wake phrase, before listen lower-cases it.
WakeSpeech == { <<"H", "e", "y", " ", "R", "o", "n">>, <<"w", "r", "o", "n", "g", " ", "n", "u", "m", "b", "e", "r">>, <<"g", "o", "o", "d", "b", "y", "e">>, <<"r", "o", "n", " ", "g", "o", "o", "d", "b", "y", "e">> }

\* What the recogniser can return for what is said after the acknowledgement.
CommandSpeech ==
    { <<"w", "h", "a", "t", " ", "t", "i", "m", "e", " ", "i", "s", " ", "i", "t">>, <<"t", "i", "m", "e", " ", "t", "o", " ", "s", "a", "y", " ", "g", "o", "o", "d", "b", "y", "e">>, <<"g", "o", "o", "d", "b", "y", "e">>, <<"h", "e", "l", "l", "o", " ", "t", "h", "e", "r", "e">>,
      <<"v", "o", "l", "u", "m", "e">>, <<"s", "e", "a", "r", "c", "h", " ", "f", "o", "r", " ", "r", "u", "s", "t", " ", "p", "r", "o", "g", "r", "a", "m", "m", "i", "n", "g">> }

\* What a listen call can return without the fallback recogniser: None
\* (nothing was said in time, the audio was not understood, or another
\* error was caught), or Google's text, possibly empty, lower-cased.
ListenResults(speech) == {None} \cup {lower(s) : s \in speech \cup {<<>>}}

\* What listen can return after the fallback (recognize_sphinx): its text
\* lower-cased, or None after any exception, which `except: pass` drops.
SphinxResults(speech) == {None} \cup {lower(s) : s \in speech}

\* An entry of wake_words that is not a string (preferences.json is loaded
\* without validation).
NotAString == <<"<int>">>

\* UserPreference.__post_init__: the default wake words.
DefaultWakeWords == << <<"h", "e", "y", " ", "r", "o", "n">>, <<"r", "o", "n">>, <<"h", "e", "y", " ", "a", "s", "s", "i", "s", "t", "a", "n", "t">> >>

\* The wake-word lists a run can start with: the default, and a list from a
\* hand-edited preferences file holding a number.
WakeConfigs == { DefaultWakeWords, << <<"h", "e", "y", " ", "r", "o", "n">>, NotAString >> }

Platforms == {"win32", "darwin", "linux"}

\* any(wake_word in text for wake_word in wake_words) from entry i on:
\* "match", "nomatch", or "error" when a non-string entry is reached
\* (TypeError) before a match.
RECURSIVE WakeFrom(_, _, _)
WakeFrom(i, t, ww) ==
    IF i > Len(ww) THEN "nomatch"
    ELSE IF ww[i] = NotAString THEN "error"
    ELSE IF In(ww[i], t) THEN "match"
    ELSE WakeFrom(i + 1, t, ww)

\* Variant of WakeCheck: the utterance must equal a wake word.
WakeCheck_Exact(t, ww) ==
    IF \E i \in 1..Len(ww) : ww[i] = t THEN "match" ELSE "nomatch"

WakeCheck(t, ww) == WakeFrom(1, t, ww)

\* The exit words of process.
exit_words == << <<"g", "o", "o", "d", "b", "y", "e">>, <<"e", "x", "i", "t">>, <<"q", "u", "i", "t">>, <<"b", "y", "e">> >>

\* ------------------------------------------------------------------ Init
Init ==
    /\ pc = "idle"
    /\ is_running = FALSE
    /\ wake_words \in WakeConfigs
    /\ platform \in Platforms
    /\ text = None
    /\ command = None
    /\ cmd_type = "unset"
    /\ should_continue = "unset"
    /\ command_history = <<>>
    /\ spoken = <<>>
    /\ dispatched = <<>>
    /\ handlerOutcome = "none"
    /\ captures = 0
    /\ silent = 0
    /\ interrupts = 0
    /\ shutdownCalls = 0
    /\ prefsSaved = FALSE
    /\ context = <<>>
    /\ pattern_table = command_patterns
    /\ classified = <<>>
    /\ tts_lock = FALSE
    /\ calls = [c \in 1..MaxCalls |-> [wait |-> TRUE, at |-> "idle"]]
    /\ requests = <<>>

config == <<wake_words, platform>>
processing ==
    <<cmd_type, should_continue, command_history, classified, dispatched, handlerOutcome>>
knowledge == <<pattern_table, context>>
rendering == <<tts_lock, calls, requests>>
hearing == <<text, command, captures, silent>>
ending == <<shutdownCalls, prefsSaved>>

\* ------------------------------------------------------------- RonAI.run
\* run: self.is_running = True
Start ==
    /\ pc = "idle"
    /\ is_running' = TRUE
    /\ pc' = "greet"
    /\ UNCHANGED <<config, knowledge, rendering, processing, hearing, ending, spoken,
                   interrupts>>

\* run: the start-up greeting.
Greet ==
    /\ pc = "greet"
    /\ speak(Say("Hello! I'm Ron, your AI assistant. Say 'Hey Ron' to activate me."))
    /\ pc' = "listen_wake"
    /\ UNCHANGED <<is_running, config, knowledge, processing, hearing, ending, interrupts>>

\* Variant of AfterWakeCapture: a capture that returned nothing ends the loop.
AfterWakeCapture_StopsOnSilence(r) ==
    /\ text' = r
    /\ captures' = captures + 1
    /\ silent' = IF Truthy(r) THEN 0 ELSE silent + 1
    /\ is_running' = Truthy(r)
    /\ pc' = IF ~Truthy(r) THEN "sleep"
             ELSE CASE WakeCheck(r, wake_words) = "match"   -> "acknowledge"
                    [] WakeCheck(r, wake_words) = "nomatch" -> "sleep"
                    [] OTHER                                       -> "recover"
    /\ UNCHANGED <<config, knowledge, rendering, processing, command, ending, spoken>>

\* Variant of AfterWakeCapture: an exit word heard while waiting for the
\* wake phrase ends the loop.
AfterWakeCapture_EndsOnExitWord(r) ==
    /\ text' = r
    /\ captures' = captures + 1
    /\ silent' = IF Truthy(r) THEN 0 ELSE silent + 1
    /\ is_running' = ~(Truthy(r) /\ AnyIn(exit_words, r))
    /\ pc' = IF ~Truthy(r) \/ AnyIn(exit_words, r) THEN "sleep"
             ELSE CASE WakeCheck(r, wake_words) = "match"   -> "acknowledge"
                    [] WakeCheck(r, wake_words) = "nomatch" -> "sleep"
                    [] OTHER                                       -> "recover"
    /\ UNCHANGED <<config, knowledge, rendering, processing, command, ending, spoken>>

\* run, once listen(timeout=1, phrase_limit=3) returned r: `if text:` and the
\* wake-word test; handle_activation is entered on a match, the TypeError
\* of a malformed list goes to the loop's `except Exception`.
AfterWakeCapture(r) ==
    /\ text' = r
    /\ captures' = captures + 1
    /\ silent' = IF Truthy(r) THEN 0 ELSE silent + 1
    /\ pc' = IF ~Truthy(r) THEN "sleep"
             ELSE CASE WakeCheck(r, wake_words) = "match"   -> "acknowledge"
                    [] WakeCheck(r, wake_words) = "nomatch" -> "sleep"
                    [] OTHER                                       -> "recover"
    /\ UNCHANGED <<is_running, config, knowledge, rendering, processing, command,
                   ending, spoken>>

\* SpeechManager.listen called by run; Google's RequestError starts the fallback.
ListenWake ==
    /\ pc = "listen_wake"
    /\ captures < MaxCaptures
    /\ \/ \E r \in ListenResults(WakeSpeech) : AfterWakeCapture(r)
       \/ /\ pc' = "sphinx_wake"
          /\ UNCHANGED <<is_running, config, knowledge, rendering, processing, hearing,
                         ending, spoken>>
    /\ UNCHANGED interrupts

SphinxWake ==
    /\ pc = "sphinx_wake"
    /\ \E r \in SphinxResults(WakeSpeech) : AfterWakeCapture(r)
    /\ UNCHANGED interrupts

\* run: what follows the loop body, the `while self.is_running` test and,
\* when it fails, the call of self.shutdown() after the loop.
LoopTest ==
    /\ IF is_running
       THEN pc' = "listen_wake" /\ UNCHANGED shutdownCalls
       ELSE pc' = "shutdown" /\ shutdownCalls' = shutdownCalls + 1
    /\ UNCHANGED <<is_running, config, knowledge, rendering, processing, hearing,
                   prefsSaved, spoken>>

\* run: time.sleep(0.1) at the end of the loop body.
Sleep ==
    /\ pc = "sleep"
    /\ LoopTest
    /\ UNCHANGED interrupts

\* Variant of Recover: an error in the loop body ends the loop.
Recover_Breaks ==
    /\ pc = "recover"
    /\ pc' = "shutdown"
    /\ shutdownCalls' = shutdownCalls + 1
    /\ UNCHANGED <<is_running, config, knowledge, rendering, processing, hearing,
                   prefsSaved, spoken, interrupts>>

\* run: `except Exception` of the loop: the error is logged, time.sleep(1).
Recover ==
    /\ pc = "recover"
    /\ LoopTest
    /\ UNCHANGED interrupts

\* ------------------------------------------------ RonAI.handle_activation
\* handle_activation is entered (its local should_continue is not bound
\* yet) and says the acknowledgement.
Acknowledge ==
    /\ pc = "acknowledge"
    /\ speak(Say("Yes, how can I help you?"))
    /\ should_continue' = "unset"
    /\ pc' = "listen_command"
    /\ UNCHANGED <<is_running, config, knowledge, cmd_type, classified, command_history,
                   dispatched, handlerOutcome, hearing, ending, interrupts>>

\* Variant of AfterCommandCapture: without the else branch of `if command:`.
AfterCommandCapture_Silent(r) ==
    /\ command' = r
    /\ captures' = captures + 1
    /\ pc' = IF Truthy(r) THEN "process" ELSE "sleep"
    /\ UNCHANGED <<is_running, config, knowledge, rendering, processing, text, silent,
                   ending, spoken>>

\* handle_activation, once listen(timeout=5, phrase_limit=10) returned r:
\* `if command:` calls process, else the "didn't hear" branch.
AfterCommandCapture(r) ==
    /\ command' = r
    /\ captures' = captures + 1
    /\ pc' = IF Truthy(r) THEN "process" ELSE "no_command"
    /\ UNCHANGED <<is_running, config, knowledge, rendering, processing, text, silent,
                   ending, spoken>>

ListenCommand ==
    /\ pc = "listen_command"
    /\ captures < MaxCaptures
    /\ \/ \E r \in ListenResults(CommandSpeech) : AfterCommandCapture(r)
       \/ /\ pc' = "sphinx_command"
          /\ UNCHANGED <<is_running, config, knowledge, rendering, processing, hearing,
                         ending, spoken>>
    /\ UNCHANGED interrupts

SphinxCommand ==
    /\ pc = "sphinx_command"
    /\ \E r \in SphinxResults(CommandSpeech) : AfterCommandCapture(r)
    /\ UNCHANGED interrupts

\* handle_activation: the else branch of `if command:`.
NoCommand ==
    /\ pc = "no_command"
    /\ speak(Say("I didn't hear anything. Please try again."))
    /\ pc' = "sleep"
    /\ UNCHANGED <<is_running, config, knowledge, processing, hearing, ending, interrupts>>

\* ------------------------------------------------ CommandProcessor.process
\* Variant of Process: the exit words are looked for only in a command that
\* no category claimed.
Process_ClassifyFirst ==
    /\ pc = "process"
    /\ command_history' =
           Append(command_history, [timestamp |-> captures, command |-> command])
    /\ cmd_type' = classify_command(command)
    /\ classified' = Append(classified, [command |-> command, type |-> cmd_type'])
    /\ pc' = IF cmd_type' = "unknown" /\ AnyIn(exit_words, lower(command))
             THEN "goodbye" ELSE "dispatch"
    /\ should_continue' = "unset"
    /\ handlerOutcome' = "none"
    /\ UNCHANGED <<is_running, config, knowledge, rendering, dispatched, hearing, ending,
                   spoken, interrupts>>

\* Variant of Process: a command holding an exit word is not recorded.
Process_ExitNotRecorded ==
    /\ pc = "process"
    /\ command_history' =
           IF AnyIn(exit_words, lower(command)) THEN command_history
           ELSE Append(command_history, [timestamp |-> captures, command |-> command])
    /\ cmd_type' = classify_command(command)
    /\ classified' = Append(classified, [command |-> command, type |-> cmd_type'])
    /\ pc' = IF AnyIn(exit_words, lower(command)) THEN "goodbye" ELSE "dispatch"
    /\ should_continue' = "unset"
    /\ handlerOutcome' = "none"
    /\ UNCHANGED <<is_running, config, knowledge, rendering, dispatched, hearing, ending,
                   spoken, interrupts>>

\* process up to the exit-word test: the history entry (its timestamp is
\* the number of captures completed so far), the classification, the test.
Process ==
    /\ pc = "process"
    /\ command_history' =
           Append(command_history, [timestamp |-> captures, command |-> command])
    /\ cmd_type' = classify_command(command)
    /\ classified' = Append(classified, [command |-> command, type |-> cmd_type'])
    /\ pc' = IF AnyIn(exit_words, lower(command)) THEN "goodbye" ELSE "dispatch"
    /\ should_continue' = "unset"
    /\ handlerOutcome' = "none"
    /\ UNCHANGED <<is_running, config, knowledge, rendering, dispatched, hearing, ending,
                   spoken, interrupts>>

\* Variant of Goodbye: handle_activation forgets to clear is_running.
Goodbye_KeepsRunning ==
    /\ pc = "goodbye"
    /\ speak(Say("Goodbye! It was nice talking to you."))
    /\ should_continue' = "False"
    /\ pc' = "sleep"
    /\ UNCHANGED <<is_running, config, knowledge, cmd_type, classified, command_history,
                   dispatched, handlerOutcome, hearing, ending, interrupts>>

\* process: the exit branch says goodbye and returns False;
\* handle_activation then clears is_running and returns to run.
Goodbye ==
    /\ pc = "goodbye"
    /\ speak(Say("Goodbye! It was nice talking to you."))
    /\ should_continue' = "False"
    /\ is_running' = FALSE
    /\ pc' = "sleep"
    /\ UNCHANGED <<config, knowledge, cmd_type, classified, command_history, dispatched,
                   handlerOutcome, hearing, ending, interrupts>>

\* process: the handler is looked up and called (a handler makes at most
\* one speak call); when it returns, process returns True, when an
\* exception leaves it, process's except block runs.
Dispatch ==
    /\ pc = "dispatch"
    /\ \E o \in handlers(cmd_type, command, platform) :
          /\ dispatched' = Append(dispatched, [type |-> cmd_type, command |-> command])
          /\ handlerOutcome' = o.ended
          /\ IF o.says = <<>> THEN UNCHANGED <<spoken, rendering>> ELSE speak(o.says[1])
          /\ IF o.ended = "raised"
             THEN pc' = "apologise" /\ UNCHANGED should_continue
             ELSE pc' = "sleep" /\ should_continue' = "True"
    /\ UNCHANGED <<is_running, config, knowledge, cmd_type, classified, command_history,
                   hearing, ending, interrupts>>

\* Variant of Apologise: the except block of process returns False.
Apologise_ReturnsFalse ==
    /\ pc = "apologise"
    /\ speak(Say("Sorry, I encountered an error processing that command."))
    /\ should_continue' = "False"
    /\ is_running' = FALSE
    /\ pc' = "sleep"
    /\ UNCHANGED <<config, knowledge, cmd_type, classified, command_history, dispatched,
                   handlerOutcome, hearing, ending, interrupts>>

\* process: `except Exception`: the error is logged, the apology is said,
\* process returns True.
Apologise ==
    /\ pc = "apologise"
    /\ speak(Say("Sorry, I encountered an error processing that command."))
    /\ should_continue' = "True"
    /\ pc' = "sleep"
    /\ UNCHANGED <<is_running, config, knowledge, cmd_type, classified, command_history,
                   dispatched, handlerOutcome, hearing, ending, interrupts>>

\* --------------------------------------------------------- RonAI.shutdown
\* Variant of Shutdown: its error leaves shutdown(), and the outer
\* `except Exception` of run calls shutdown() again.
Shutdown_RaisesToRun ==
    /\ pc = "shutdown"
    /\ prefsSaved' \in BOOLEAN
    /\ \/ /\ speak(Say("Ron shutting down. Goodbye!"))
          /\ UNCHANGED shutdownCalls
       \/ /\ speak(Say("Ron shutting down. Goodbye!"))
          /\ shutdownCalls' = shutdownCalls + 1
    /\ pc' = "done"
    /\ UNCHANGED <<is_running, config, knowledge, processing, hearing, interrupts>>

\* shutdown: save_preferences (which logs its own failure), the engine is
\* stopped, the farewell is said; when tts_engine.stop() raises, shutdown's
\* `except Exception` logs the error and the farewell is not said.
Shutdown ==
    /\ pc = "shutdown"
    /\ prefsSaved' \in BOOLEAN
    /\ \/ speak(Say("Ron shutting down. Goodbye!"))
       \/ UNCHANGED <<spoken, rendering>>
    /\ pc' = "done"
    /\ UNCHANGED <<is_running, config, knowledge, processing, hearing, shutdownCalls,
                   interrupts>>

\* ------------------------------------------------------ KeyboardInterrupt
\* The signal is taken to arrive while the main thread is inside one of the
\* calls run and handle_activation make (speak, listen, process, sleep,
\* shutdown); the `while` test is taken together with the delay before it.
\* The `except Exception` blocks of handle_activation and of run's outer
\* try have no step of their own: speak, listen, process and shutdown catch
\* every Exception themselves, so none reaches them.
\* Ctrl-C while the main thread is inside the loop's try block: no
\* `except Exception` on the way catches it, `except KeyboardInterrupt: break`
\* of run does, and the shutdown() call after the loop follows.
InterruptInLoop ==
    /\ pc \in {"listen_wake", "sleep", "acknowledge", "listen_command", "no_command",
               "process", "goodbye", "dispatch", "apologise"}
    /\ pc' = "shutdown"
    /\ shutdownCalls' = shutdownCalls + 1
    /\ UNCHANGED <<is_running, config, knowledge, rendering, processing, hearing,
                   prefsSaved, spoken>>

\* Ctrl-C during the greeting, during the sleep of the loop's except block
\* or during shutdown: run's outer handler is `except Exception`, so the
\* KeyboardInterrupt leaves run (main catches it).
InterruptOutsideLoop ==
    /\ pc \in {"greet", "recover", "shutdown"}
    /\ pc' = "interrupted"
    /\ UNCHANGED <<is_running, config, knowledge, rendering, processing, hearing,
                   ending, spoken>>

\* Ctrl-C while the fallback recogniser runs: the bare `except: pass` of
\* listen drops it, and listen returns None.
InterruptInFallback ==
    \/ /\ pc = "sphinx_wake"
       /\ AfterWakeCapture(None)
    \/ /\ pc = "sphinx_command"
       /\ AfterCommandCapture(None)

Interrupt ==
    /\ interrupts < MaxInterrupts
    /\ interrupts' = interrupts + 1
    /\ \/ InterruptInLoop
       \/ InterruptOutsideLoop
       \/ InterruptInFallback

Next ==
    \/ Start
    \/ Greet
    \/ ListenWake
    \/ SphinxWake
    \/ Sleep
    \/ Recover
    \/ Acknowledge
    \/ ListenCommand
    \/ SphinxCommand
    \/ NoCommand
    \/ Process
    \/ Goodbye
    \/ Dispatch
    \/ Apologise
    \/ Shutdown
    \/ Interrupt

Spec == Init /\ [][Next]_vars

\* The run with its delay guaranteed to end: time.sleep(0.1) returns.
FairSpec == Spec /\ WF_vars(Sleep)

\* ------------------------------------------- the classifier on its own
\* The words utterances given to classify_command are made of.
Vocabulary ==
    { <<"w", "h", "a", "t">>, <<"t", "i", "m", "e">>, <<"t", "o", "d", "a", "y">>, <<"W", "e", "a", "t", "h", "e", "r">>, <<"t", "e", "m", "p", "e", "r", "a", "t", "u", "r", "e">>, <<"s", "e", "a", "r", "c", "h">>, <<"o", "p", "e", "n">>,
      <<"u", "n", "m", "u", "t", "e">>, <<"p", "l", "a", "y">>, <<"m", "u", "s", "i", "c">>, <<"d", "e", "f", "i", "n", "e">>, <<"l", "i", "g", "h", "t", "s">>, <<"r", "e", "m", "i", "n", "d">>, <<"n", "o", "t", "e">>,
      <<"h", "e", "l", "l", "o">>, <<"b", "y", "e">>, <<"Q", "u", "i", "t">> }

\* The utterances of exactly n words, joined by single spaces.
RECURSIVE Phrases(_)
Phrases(n) ==
    IF n = 0 THEN {<<>>}
    ELSE IF n = 1 THEN Vocabulary
    ELSE {w \o <<" ">> \o p : w \in Vocabulary, p \in Phrases(n - 1)}

InputUtterances == UNION {Phrases(n) : n \in 0..MaxWords}

InitClassify ==
    /\ pc = "classify"
    /\ command \in InputUtterances
    /\ is_running = FALSE
    /\ wake_words = DefaultWakeWords
    /\ platform = "linux"
    /\ text = None
    /\ cmd_type = "unset"
    /\ should_continue = "unset"
    /\ command_history = <<>>
    /\ spoken = <<>>
    /\ dispatched = <<>>
    /\ handlerOutcome = "none"
    /\ captures = 0
    /\ silent = 0
    /\ interrupts = 0
    /\ shutdownCalls = 0
    /\ prefsSaved = FALSE
    /\ context = <<>>
    /\ pattern_table = command_patterns
    /\ classified = <<>>
    /\ tts_lock = FALSE
    /\ calls = [c \in 1..MaxCalls |-> [wait |-> TRUE, at |-> "idle"]]
    /\ requests = <<>>

\* One call of classify_command on the chosen utterance.
Classify ==
    /\ pc = "classify"
    /\ cmd_type' = classify_command(command)
    /\ classified' = Append(classified, [command |-> command, type |-> cmd_type'])
    /\ pc' = "classified"
    /\ UNCHANGED <<is_running, config, knowledge, rendering, should_continue,
                   command_history, dispatched, handlerOutcome, hearing, ending, spoken,
                   interrupts>>

NextClassify == Classify

SpecClassify == InitClassify /\ [][NextClassify]_vars

\* --------------------------------------------- process on its own
\* One call of CommandProcessor.process on any utterance, as a caller other
\* than handle_activation (which passes lower-cased text) can make it.
InitProcess ==
    /\ pc = "process"
    /\ command \in InputUtterances
    /\ is_running = TRUE
    /\ wake_words = DefaultWakeWords
    /\ platform \in Platforms
    /\ text = None
    /\ cmd_type = "unset"
    /\ should_continue = "unset"
    /\ command_history = <<>>
    /\ spoken = <<>>
    /\ dispatched = <<>>
    /\ handlerOutcome = "none"
    /\ captures = 0
    /\ silent = 0
    /\ interrupts = 0
    /\ shutdownCalls = 0
    /\ prefsSaved = FALSE
    /\ context = <<>>
    /\ pattern_table = command_patterns
    /\ classified = <<>>
    /\ tts_lock = FALSE
    /\ calls = [c \in 1..MaxCalls |-> [wait |-> TRUE, at |-> "idle"]]
    /\ requests = <<>>

NextProcess ==
    \/ Process
    \/ Goodbye
    \/ Dispatch
    \/ Apologise

SpecProcess == InitProcess /\ [][NextProcess]_vars


\* ------------------------------------ callers of the CommandProcessor
\* Everything of the session that a direct call of classify_command or
\* process leaves alone.
session == <<is_running, config, hearing, ending, interrupts>>

\* The utterances a caller passes, in any case.
CallerUtterances ==
    { <<"w", "h", "a", "t", " ", "t", "i", "m", "e", " ", "i", "s", " ", "i", "t">>, <<"S", "e", "a", "r", "c", "h", " ", "f", "o", "r", " ", "R", "u", "s", "t">>, <<"g", "o", "o", "d", "b", "y", "e">>, <<"h", "e", "l", "l", "o", " ", "t", "h", "e", "r", "e">> }

InitCaller ==
    /\ pc = "caller"
    /\ command = None
    /\ is_running = TRUE
    /\ wake_words = DefaultWakeWords
    /\ platform = "linux"
    /\ text = None
    /\ cmd_type = "unset"
    /\ should_continue = "unset"
    /\ command_history = <<>>
    /\ spoken = <<>>
    /\ dispatched = <<>>
    /\ handlerOutcome = "none"
    /\ captures = 0
    /\ silent = 0
    /\ interrupts = 0
    /\ shutdownCalls = 0
    /\ prefsSaved = FALSE
    /\ context = <<>>
    /\ pattern_table = command_patterns
    /\ classified = <<>>
    /\ tts_lock = FALSE
    /\ calls = [c \in 1..MaxCalls |-> [wait |-> TRUE, at |-> "idle"]]
    /\ requests = <<>>

\* A caller holding the CommandProcessor makes its next call, once the
\* call before has returned: classify_command(u) or process(u).
Caller ==
    /\ pc \in {"caller", "classified", "sleep"}
    /\ Len(classified) <= MaxCommands
    /\ command' \in CallerUtterances
    /\ pc' \in {"classify", "process"}
    /\ UNCHANGED <<is_running, config, knowledge, rendering, processing, text, captures,
                   silent, ending, spoken, interrupts>>

NextCaller ==
    \/ Caller
    \/ Classify
    \/ Process
    \/ Goodbye
    \/ Dispatch
    \/ Apologise

SpecCaller == InitCaller /\ [][NextCaller]_vars

\* --------------------------------------- concurrent callers of speak
InitSpeak ==
    /\ pc = "speaking"
    /\ command = None
    /\ is_running = TRUE
    /\ wake_words = DefaultWakeWords
    /\ platform = "linux"
    /\ text = None
    /\ cmd_type = "unset"
    /\ should_continue = "unset"
    /\ command_history = <<>>
    /\ spoken = <<>>
    /\ dispatched = <<>>
    /\ handlerOutcome = "none"
    /\ captures = 0
    /\ silent = 0
    /\ interrupts = 0
    /\ shutdownCalls = 0
    /\ prefsSaved = FALSE
    /\ context = <<>>
    /\ pattern_table = command_patterns
    /\ classified = <<>>
    /\ tts_lock = FALSE
    /\ calls = [c \in 1..MaxCalls |-> [wait |-> TRUE, at |-> "idle"]]
    /\ requests = <<>>

\* The text passed by the speak call c.
TextOf(c) == SayArg("<text>", <<ToString(c)>>)

\* speak(text, wait) is called: _speak is about to run, on the caller's
\* thread (wait=True) or on a daemon thread started for it (wait=False).
Call(c, w) ==
    /\ pc = "speaking"
    /\ calls[c].at = "idle"
    /\ calls' = [calls EXCEPT ![c] = [wait |-> w, at |-> "start"]]
    /\ requests' = Append(requests, c)
    /\ UNCHANGED <<pc, tts_lock, spoken, session, knowledge, processing>>

\* Variant of Acquire: _speak does not wait for the lock.
Acquire_NoLock(c) ==
    /\ calls[c].at = "start"
    /\ tts_lock' = TRUE
    /\ calls' = [calls EXCEPT ![c].at = "say"]
    /\ UNCHANGED <<pc, spoken, requests, session, knowledge, processing>>

\* _speak: `with self.tts_lock:` is entered once the lock is free.
Acquire(c) ==
    /\ calls[c].at = "start"
    /\ ~tts_lock
    /\ tts_lock' = TRUE
    /\ calls' = [calls EXCEPT ![c].at = "say"]
    /\ UNCHANGED <<pc, spoken, requests, session, knowledge, processing>>

\* _speak: the text is printed and tts_engine.say(text) is called; an
\* exception of the engine goes to the except block.
TtsSay(c) ==
    /\ calls[c].at = "say"
    /\ spoken' = Append(spoken, TextOf(c))
    /\ \E to \in {"runAndWait", "except"} : calls' = [calls EXCEPT ![c].at = to]
    /\ UNCHANGED <<pc, tts_lock, requests, session, knowledge, processing>>

\* _speak: tts_engine.runAndWait() returns and the with block is left,
\* which releases the lock; or it raises.
RunAndWait(c) ==
    /\ calls[c].at = "runAndWait"
    /\ \/ /\ calls' = [calls EXCEPT ![c].at = "done"]
          /\ tts_lock' = FALSE
       \/ /\ calls' = [calls EXCEPT ![c].at = "except"]
          /\ UNCHANGED tts_lock
    /\ UNCHANGED <<pc, spoken, requests, session, knowledge, processing>>

\* _speak: `except Exception` logs the error; the with block is left.
TtsError(c) ==
    /\ calls[c].at = "except"
    /\ calls' = [calls EXCEPT ![c].at = "done"]
    /\ tts_lock' = FALSE
    /\ UNCHANGED <<pc, spoken, requests, session, knowledge, processing>>

NextSpeak ==
    \E c \in 1..MaxCalls :
        \/ \E w \in BOOLEAN : Call(c, w)
        \/ Acquire(c)
        \/ TtsSay(c)
        \/ RunAndWait(c)
        \/ TtsError(c)

SpecSpeak == InitSpeak /\ [][NextSpeak]_vars

\* ------------------------------------------------ search commands
\* The words the queries of search commands are made of.
QueryWords ==
    { <<"r", "u", "s", "t">>, <<"p", "r", "o", "g", "r", "a", "m", "m", "i", "n", "g">>, <<"R", "u", "s", "t">>, <<"c", "l", "o", "c", "k">>, <<"f", "r", "i", "d", "a", "y">>, <<"f", "o", "r", "e", "c", "a", "s", "t">>, <<" ", "t", "i", "p", "s", " ">> }

\* The queries of exactly n words, joined by single spaces.
RECURSIVE Queries(_)
Queries(n) ==
    IF n = 1 THEN QueryWords
    ELSE {w \o <<" ">> \o q : w \in QueryWords, q \in Queries(n - 1)}

\* The commands 'search for Q'.
SearchCommands == { <<"s", "e", "a", "r", "c", "h", " ", "f", "o", "r", " ">> \o q : q \in UNION {Queries(n) : n \in 1..MaxWords} }

\* One call of process on a search command.
InitSearch ==
    /\ pc = "process"
    /\ command \in SearchCommands
    /\ is_running = TRUE
    /\ wake_words = DefaultWakeWords
    /\ platform = "linux"
    /\ text = None
    /\ cmd_type = "unset"
    /\ should_continue = "unset"
    /\ command_history = <<>>
    /\ spoken = <<>>
    /\ dispatched = <<>>
    /\ handlerOutcome = "none"
    /\ captures = 0
    /\ silent = 0
    /\ interrupts = 0
    /\ shutdownCalls = 0
    /\ prefsSaved = FALSE
    /\ context = <<>>
    /\ pattern_table = command_patterns
    /\ classified = <<>>
    /\ tts_lock = FALSE
    /\ calls = [c \in 1..MaxCalls |-> [wait |-> TRUE, at |-> "idle"]]
    /\ requests = <<>>

NextSearch ==
    \/ Process
    \/ Dispatch
    \/ Apologise

SpecSearch == InitSearch /\ [][NextSearch]_vars
\* ================================================================ claims
\* Vocabulary of the claims.
Last(s) == s[Len(s)]

\* The utterance holds one of the termination phrases, whatever its case.
HasTerminationPhrase(c) ==
    LET lc == lower(c)
    IN  \E w \in { <<"g", "o", "o", "d", "b", "y", "e">>, <<"e", "x", "i", "t">>, <<"q", "u", "i", "t">>, <<"b", "y", "e">> } : In(w, lc)

\* Entry k of the pattern table has a trigger substring in the lower-cased utterance.
HasTrigger(k, c) ==
    \E i \in 1..Len(command_patterns[k].patterns) :
        In(command_patterns[k].patterns[i], lower(c))

\* The states of the session: waiting for the wake phrase.
AwaitingWake == pc \in {"listen_wake", "sphinx_wake", "sleep", "recover"}

\* run has returned or was left by the interruption.
RunEnded == pc \in {"done", "interrupted"}

\* This step is not the delivery of an interruption signal.
NotInterrupted == interrupts' = interrupts

\* This step completes a wake-phrase capture / a command capture.
WakeCaptureEnds == pc \in {"listen_wake", "sphinx_wake"} /\ captures' = captures + 1
CommandCaptureEnds == pc \in {"listen_command", "sphinx_command"} /\ captures' = captures + 1

\* C1: a command holding a termination phrase is never handed to a handler,
\* and when process has returned for it, it returned False - whatever
\* category the command was classified as.
C1_TerminationTakesPrecedence ==
    /\ \A i \in 1..Len(dispatched) : ~HasTerminationPhrase(dispatched[i].command)
    /\ (should_continue # "unset" /\ HasTerminationPhrase(command))
           => (should_continue = "False" /\ handlerOutcome = "none")

\* Witness of C1: process returned False for a command that also holds a
\* trigger substring of a category (it was classified Time).
C1_Witness ==
    /\ should_continue = "False"
    /\ HasTerminationPhrase(command)
    /\ cmd_type = "time"
    /\ Last(command_history).command = command

\* The categories in their declared order.
DeclaredOrder ==
    <<"time", "date", "weather", "search", "open_app", "volume", "music", "info",
      "smart_home", "reminder", "note">>

\* C2: the pattern table lists the categories in the declared order, and
\* classify_command returns the first category, in that order, that has a
\* trigger substring in the lower-cased utterance.
C2_FirstMatchInDeclaredOrder ==
    /\ [k \in 1..Len(command_patterns) |-> command_patterns[k].type] = DeclaredOrder
    /\ pc = "classified" =>
          \A k \in 1..Len(DeclaredOrder) :
              (HasTrigger(k, command) /\ \A j \in 1..(k - 1) : ~HasTrigger(j, command))
                  => cmd_type = DeclaredOrder[k]

\* Witness of C2: an utterance with trigger substrings of two categories
\* was classified as the earlier one.
C2_Witness ==
    /\ pc = "classified"
    /\ \E j, k \in 1..Len(DeclaredOrder) :
          /\ j < k
          /\ HasTrigger(j, command)
          /\ HasTrigger(k, command)
          /\ \A h \in 1..(j - 1) : ~HasTrigger(h, command)
          /\ cmd_type = DeclaredOrder[j]

\* C3: classify_command returns Unknown exactly for the utterances (the
\* empty one included) that hold no trigger substring of any category.
C3_UnknownIffNoTrigger ==
    pc = "classified" =>
        (cmd_type = "unknown" <=> \A k \in 1..Len(command_patterns) : ~HasTrigger(k, command))

\* Witness of C3: the empty utterance was classified Unknown.
C3_Witness == pc = "classified" /\ command = <<>> /\ cmd_type = "unknown"

\* C4: when an exception left the handler of a command (which held no
\* termination phrase), process returned True, the running flag is still
\* set, the session waits for the wake phrase again (or was activated by
\* the next one) with the generic apology as the last thing said, and
\* shutdown has been called only if an interruption signal arrived.
C4_HandlerFailureContained ==
    (handlerOutcome = "raised" /\ should_continue # "unset") =>
        /\ should_continue = "True"
        /\ is_running
        /\ ~HasTerminationPhrase(Last(dispatched).command)
        /\ \/ AwaitingWake
           \/ pc = "acknowledge"
           \/ (interrupts > 0 /\ pc \in {"shutdown", "done", "interrupted"})
        /\ (AwaitingWake \/ pc = "acknowledge") =>
              /\ Last(spoken) = Say("Sorry, I encountered an error processing that command.")
              /\ shutdownCalls = 0

\* Witness of C4: a handler raised, and the session listens for the wake phrase again.
C4_Witness ==
    /\ handlerOutcome = "raised"
    /\ should_continue = "True"
    /\ pc = "listen_wake"
    /\ interrupts = 0

\* C5, as claimed: when run has ended after an interruption signal,
\* shutdown() has been called.
C5_InterruptAlwaysShutsDown ==
    (RunEnded /\ interrupts > 0) => shutdownCalls > 0

\* C6: once process returned False there is no further capture and no
\* further dispatch, the running flag is clear, the step after the loop's
\* delay is the call of shutdown(), and shutdown() is eventually called;
\* once it returned True the running flag stays set and, unless a signal
\* arrives, the step after the loop's delay is the next wake-phrase capture.
C6_ContinueFlagDecidesNextState ==
    /\ [](should_continue = "False" =>
              /\ ~is_running
              /\ pc \in {"sleep", "shutdown", "done", "interrupted"}
              /\ RunEnded => shutdownCalls > 0)
    /\ [](should_continue = "True" => is_running)
    /\ [][ /\ should_continue = "False" =>
                /\ captures' = captures
                /\ dispatched' = dispatched
                /\ pc = "sleep" => (pc' = "shutdown" /\ shutdownCalls' = shutdownCalls + 1)
           /\ (should_continue = "True" /\ pc = "sleep" /\ NotInterrupted) =>
                (pc' = "listen_wake" /\ captures' = captures /\ spoken' = spoken)
         ]_vars
    /\ (should_continue = "False") ~> (shutdownCalls > 0)

\* Witness of C6: after process returned False the loop ended and
\* shutdown() was called, with no signal involved.
C6_Witness ==
    /\ should_continue = "False"
    /\ pc = "shutdown"
    /\ shutdownCalls = 1
    /\ interrupts = 0

\* C7: a wake-phrase capture that returns nothing says nothing, dispatches
\* nothing, adds nothing to the history, leaves the running flag set and
\* goes to the loop's delay, after which (unless a signal arrives) the next
\* capture starts; so after any number of such captures in a row from the
\* start, only the greeting has been said.
C7_SilenceKeepsAwaitingWake ==
    /\ []((captures > 0 /\ silent = captures /\ AwaitingWake) =>
              /\ spoken = <<Say("Hello! I'm Ron, your AI assistant. Say 'Hey Ron' to activate me.")>>
              /\ command_history = <<>>
              /\ dispatched = <<>>
              /\ is_running
              /\ pc # "recover")
    /\ [][ /\ (WakeCaptureEnds /\ ~Truthy(text')) =>
                /\ spoken' = spoken
                /\ dispatched' = dispatched
                /\ command_history' = command_history
                /\ is_running /\ is_running'
                /\ shutdownCalls' = shutdownCalls
                /\ pc' = "sleep"
           /\ (pc = "sleep" /\ silent > 0 /\ NotInterrupted) =>
                (pc' = "listen_wake" /\ spoken' = spoken /\ is_running')
         ]_vars

\* Witness of C7: two captures in a row timed out, and the third is awaited.
C7_Witness ==
    /\ silent >= 2
    /\ text = None
    /\ pc = "listen_wake"

\* C8: a command capture that returns nothing goes to the "didn't hear"
\* branch without classifying, dispatching or recording anything; that
\* branch says its one sentence and goes to the loop's delay with the
\* running flag set, after which (unless a signal arrives) the next
\* wake-phrase capture starts with nothing more said.
C8_NoCommandHeard ==
    [][ /\ (CommandCaptureEnds /\ ~Truthy(command')) =>
             /\ pc' = "no_command"
             /\ spoken' = spoken
             /\ UNCHANGED <<cmd_type, dispatched, command_history, is_running, shutdownCalls>>
        /\ (pc = "no_command" /\ NotInterrupted) =>
             /\ spoken' = Append(spoken, Say("I didn't hear anything. Please try again."))
             /\ pc' = "sleep"
             /\ is_running /\ is_running'
             /\ UNCHANGED <<cmd_type, dispatched, command_history, shutdownCalls>>
        /\ (pc = "sleep" /\ ~Truthy(command) /\ spoken # <<>>
                /\ Last(spoken) = Say("I didn't hear anything. Please try again.")
                /\ NotInterrupted) =>
             /\ pc' = "listen_wake"
             /\ UNCHANGED <<spoken, cmd_type, dispatched, command_history, is_running>>
      ]_vars

\* Witness of C8: the "didn't hear" sentence was said after the
\* acknowledgement and the session is back at the loop's delay, running.
C8_Witness ==
    /\ pc = "sleep"
    /\ is_running
    /\ ~Truthy(command)
    /\ Len(spoken) >= 2
    /\ Last(spoken) = Say("I didn't hear anything. Please try again.")
    /\ spoken[Len(spoken) - 1] = Say("Yes, how can I help you?")

\* Every entry of wake_words is a string.
WakePhrasesAreStrings == \A i \in 1..Len(wake_words) : wake_words[i] # NotAString

\* The utterance holds a wake phrase as a substring.
HoldsWakePhrase(t) ==
    \E i \in 1..Len(wake_words) : wake_words[i] # NotAString /\ In(wake_words[i], t)

\* C9: the session is activated only by a wake-phrase capture whose
\* utterance holds a wake phrase as a substring; with a wake-phrase set of
\* strings every such utterance activates it; and an utterance that does
\* not activate it leaves it waiting, with nothing said.
C9_WakeByContainment ==
    [][ /\ pc' = "acknowledge" => (WakeCaptureEnds /\ Truthy(text') /\ HoldsWakePhrase(text'))
        /\ (WakeCaptureEnds /\ Truthy(text')) =>
             /\ (WakePhrasesAreStrings /\ HoldsWakePhrase(text')) => pc' = "acknowledge"
             /\ ~HoldsWakePhrase(text') =>
                   (pc' \in {"sleep", "recover"} /\ spoken' = spoken /\ is_running')
             /\ (WakePhrasesAreStrings /\ ~HoldsWakePhrase(text')) => pc' = "sleep"
      ]_vars

\* Witness of C9: the session was activated by an utterance that holds a
\* wake phrase without being one.
C9_Witness ==
    /\ pc = "acknowledge"
    /\ WakePhrasesAreStrings
    /\ \A i \in 1..Len(wake_words) : wake_words[i] # text
    /\ ~In(<<"h", "e", "y", " ", "r", "o", "n">>, text)

\* C10: the running flag is cleared only by process returning False for a
\* command that holds a termination phrase, and shutdown() is called only
\* after that or on an interruption signal.
C10_LoopLeftOnlyByExitOrSignal ==
    /\ []((pc # "idle" /\ ~is_running) =>
              (should_continue = "False" /\ HasTerminationPhrase(command)))
    /\ [][ /\ (is_running /\ ~is_running') =>
                (pc = "goodbye" /\ HasTerminationPhrase(command) /\ should_continue' = "False")
           /\ shutdownCalls' # shutdownCalls =>
                \/ ~NotInterrupted
                \/ (pc = "sleep" /\ ~is_running /\ should_continue = "False")
         ]_vars

\* Witness of C10: a handler raised, later the wake-word test raised, and
\* the loop is still running with shutdown() not called.
C10_Witness ==
    /\ pc = "recover"
    /\ handlerOutcome = "raised"
    /\ is_running
    /\ shutdownCalls = 0


\* The farewell of shutdown().
Farewell == Say("Ron shutting down. Goodbye!")

\* C11, as claimed: once shutdown() has been called and the run is over,
\* the farewell has been said and it is the last response of the run.
C11_ShutdownSaysFarewellLast ==
    (RunEnded /\ shutdownCalls > 0) => (spoken # <<>> /\ Last(spoken) = Farewell)

\* A speak call is inside the `with self.tts_lock:` block of _speak.
InRegion(c) == calls[c].at \in {"say", "runAndWait", "except"}

\* C12: at most one speak call, blocking or not, is inside the locked
\* region of _speak (say, runAndWait, and the logging of their error), and
\* the lock is held exactly while one is.
C12_RendersNeverOverlap ==
    /\ \A c, d \in DOMAIN calls : (InRegion(c) /\ InRegion(d)) => c = d
    /\ tts_lock <=> \E c \in DOMAIN calls : InRegion(c)

\* Witness of C12: a background call is inside runAndWait while a blocking
\* call and another background call wait for the lock.
C12_Witness ==
    \E c, d, e \in DOMAIN calls :
        /\ calls[c] = [wait |-> FALSE, at |-> "runAndWait"]
        /\ calls[d] = [wait |-> TRUE, at |-> "start"]
        /\ calls[e] = [wait |-> FALSE, at |-> "start"]

\* The clarification of _handle_unknown.
Clarification == Say("I'm not sure how to help with that. Could you please rephrase?")

\* C13: when process has returned for an utterance that was classified
\* Unknown and holds no termination phrase, the utterance was handed to the
\* fallback handler, the clarification is the one response, and process
\* returned True.
C13_UnknownGetsClarification ==
    (should_continue # "unset" /\ cmd_type = "unknown" /\ ~HasTerminationPhrase(command)) =>
        /\ should_continue = "True"
        /\ handlerOutcome = "ok"
        /\ dispatched = <<[type |-> "unknown", command |-> command]>>
        /\ spoken = <<Clarification>>

\* Witness of C13: process returned True for "hello".
C13_Witness ==
    /\ command = <<"h", "e", "l", "l", "o">>
    /\ cmd_type = "unknown"
    /\ should_continue = "True"
    /\ spoken = <<Clarification>>

\* C14: any two classify_command calls with the same utterance returned the
\* same category, whatever was processed between them; the pattern table
\* and the context are never changed; and a direct call of
\* classify_command changes neither the history nor anything said or
\* dispatched.
C14_ClassifyDeterministicAndPure ==
    /\ [](\A i, j \in 1..Len(classified) :
              classified[i].command = classified[j].command
                  => classified[i].type = classified[j].type)
    /\ [](pattern_table = command_patterns /\ context = <<>>)
    /\ [][pc = "classify" =>
              /\ classified' = Append(classified, [command |-> command, type |-> cmd_type'])
              /\ UNCHANGED <<command_history, context, pattern_table, spoken, dispatched>>
         ]_vars

\* Witness of C14: "hello there" was classified Unknown before and after
\* "what time is it" was processed.
C14_Witness ==
    /\ pc = "classified"
    /\ Len(classified) = 3
    /\ classified[1] = [command |-> <<"h", "e", "l", "l", "o", " ", "t", "h", "e", "r", "e">>, type |-> "unknown"]
    /\ classified[2].command = <<"w", "h", "a", "t", " ", "t", "i", "m", "e", " ", "i", "s", " ", "i", "t">>
    /\ classified[3] = classified[1]
    /\ Len(command_history) = 1
    /\ Len(dispatched) = 1

\* The Q of a command 'search for Q'.
QueryOf(c) == SubSeq(c, Len(<<"s", "e", "a", "r", "c", "h", " ", "f", "o", "r", " ">>) + 1, Len(c))

\* A trigger substring of Time, Date or Weather occurs in the command.
EarlierCategoryTriggered(c) == HasTrigger(1, c) \/ HasTrigger(2, c) \/ HasTrigger(3, c)

C16_EveryCommandAnswered ==
    (pc = "sleep" /\ should_continue = "True") => Last(spoken) # Say("Yes, how can I help you?")

\* The speak calls whose rendering has started and not ended.
InFlight == {c \in DOMAIN calls : calls[c].at \notin {"idle", "done"}}

\* The session is about to capture, or is capturing, an utterance.
Capturing == pc \in {"listen_wake", "sphinx_wake", "listen_command", "sphinx_command"}

\* C17: whenever an utterance capture begins, every response started
\* before has been rendered completely; a handler's response is said in
\* the step that dispatches its command, which is the command recorded
\* last; a command is dispatched only while no response is being rendered;
\* and between the start of process and its return nothing is captured.
C17_OneCommandAtATime ==
    /\ [](Capturing => (InFlight = {} /\ ~tts_lock))
    /\ [][ /\ dispatched' # dispatched =>
                /\ pc = "dispatch"
                /\ InFlight = {} /\ InFlight' = {}
                /\ dispatched' = Append(dispatched, [type |-> cmd_type, command |-> command])
                /\ Last(command_history).command = command
                /\ Len(spoken') <= Len(spoken) + 1
           /\ (pc \in {"process", "goodbye", "dispatch", "apologise"} /\ NotInterrupted) =>
                (captures' = captures /\ command' = command /\ ~Capturing')
         ]_vars

\* Witness of C17: the answer to a command was said, and the next
\* wake-phrase capture begins.
C17_Witness ==
    /\ pc = "listen_wake"
    /\ Len(dispatched) = 1
    /\ handlerOutcome = "ok"
    /\ Last(spoken) = Say("It's <time>")
    /\ InFlight = {}

\* The commands of the history entries, in order.
Recorded == [i \in 1..Len(command_history) |-> command_history[i].command]

\* The farewell of process.
ExitGoodbye == Say("Goodbye! It was nice talking to you.")

\* C18: a step changes the history only by appending, at the start of a
\* process call, one entry for the command of that call, and every process
\* call does so; hence, between calls, the entries are the commands that
\* were handed to a handler, in that order, interleaved with the commands
\* that ended with process's goodbye.
C18_HistoryAppendOnly ==
    /\ [][ /\ pc = "process" =>
                command_history' =
                    Append(command_history, [timestamp |-> captures, command |-> command])
           /\ pc # "process" => command_history' = command_history
         ]_vars
    /\ [](pc \in {"caller", "classify", "classified", "sleep"} =>
            /\ SelectSeq(Recorded, LAMBDA c : ~HasTerminationPhrase(c))
                   = [i \in 1..Len(dispatched) |-> dispatched[i].command]
            /\ Len(SelectSeq(Recorded, HasTerminationPhrase))
                   = Len(SelectSeq(spoken, LAMBDA r : r = ExitGoodbye)))

\* Witness of C18: the handler of the first command failed, the second
\* command held a termination phrase, and both are in the history in order.
C18_Witness ==
    /\ pc = "sleep"
    /\ Recorded = << <<"w", "h", "a", "t", " ", "t", "i", "m", "e", " ", "i", "s", " ", "i", "t">>, <<"g", "o", "o", "d", "b", "y", "e">> >>
    /\ spoken = <<Say("Sorry, I encountered an error processing that command."), ExitGoodbye>>

\* C19, as claimed: every history entry has a category field, which holds
\* what classify_command returns for the entry's utterance.
C19_HistoryRecordsCategory ==
    \A i \in 1..Len(command_history) :
        /\ "category" \in DOMAIN command_history[i]
        /\ command_history[i].category = classify_command(command_history[i].command)

\* C20, as claimed: classify_command is never called for an utterance that
\* holds a termination phrase.
C20_TerminationCheckedBeforeClassifying ==
    \A i \in 1..Len(classified) : ~HasTerminationPhrase(classified[i].command)

\* The text of speak call c has been printed and handed to the engine.
Rendered(c) == \E k \in 1..Len(spoken) : spoken[k] = TextOf(c)

\* The position of the text of speak call c among the rendered texts.
RenderedAt(c) == CHOOSE k \in 1..Len(spoken) : spoken[k] = TextOf(c)

\* C21, as claimed: when a speak call with wait=False was made before
\* another speak call and the later call's text has been rendered, the
\* earlier call's text was rendered before it.
C21_BackgroundRendersKeepOrder ==
    \A i, j \in 1..Len(requests) :
        (i < j /\ ~calls[requests[i]].wait /\ Rendered(requests[j]))
            => (Rendered(requests[i]) /\ RenderedAt(requests[i]) < RenderedAt(requests[j]))

\* C22: the pattern table has no entry for System, so classify_command
\* returns System for no utterance (what it returns is a category of the
\* enumeration other than System); and for the category System the
\* dispatch of process ends as the fallback handler does.
C22_SystemNeverProduced ==
    /\ \A k \in 1..Len(pattern_table) : pattern_table[k].type # "system"
    /\ "system" \in CommandType
    /\ pc = "classified" => cmd_type \in CommandType \ {"system"}
    /\ \A plat \in Platforms : handlers("system", command, plat) = _handle_unknown(command)

\* Witness of C22: an utterance naming no trigger was classified Unknown,
\* not System, and a System command would be answered by the clarification.
C22_Witness ==
    /\ pc = "classified"
    /\ command = <<"h", "e", "l", "l", "o">>
    /\ cmd_type = "unknown"
    /\ handlers("system", command, platform) = {Ended("ok", <<Clarification>>)}

\* C23: the step that completes a wake-phrase capture changes neither the
\* history, nor the classifications, nor the dispatches, nor the running
\* flag, nor the command, whatever was heard; the history grows, and
\* process returns False, only for the utterance of the last command
\* capture; and the running flag is cleared only for a command capture that
\* holds a termination phrase.
C23_WakeUtterancesAreNotCommands ==
    /\ [][ /\ WakeCaptureEnds =>
                /\ UNCHANGED <<command_history, classified, dispatched, command,
                               should_continue, shutdownCalls>>
                /\ is_running /\ is_running'
           /\ command' # command => CommandCaptureEnds
           /\ command_history' # command_history =>
                (pc = "process" /\ Last(command_history').command = command)
           /\ (should_continue' = "False" /\ should_continue # "False") =>
                (pc = "goodbye" /\ HasTerminationPhrase(command))
         ]_vars
    /\ []((pc # "idle" /\ ~is_running) => HasTerminationPhrase(command))

\* Witness of C23: "ron goodbye" was heard while waiting for the wake
\* phrase; the session was activated and waits for the command, running,
\* with nothing recorded.
C23_Witness ==
    /\ text = <<"r", "o", "n", " ", "g", "o", "o", "d", "b", "y", "e">>
    /\ pc = "listen_command"
    /\ is_running
    /\ command_history = <<>>
    /\ classified = <<>>
    /\ shutdownCalls = 0

\* The number of times the farewell of shutdown() has been said.
Farewells == Len(SelectSeq(spoken, LAMBDA r : r = Farewell))

\* C24: shutdown() is called at most once in a run, its farewell is said
\* at most once, and only after shutdown() was called.
C24_ShutdownAtMostOnce ==
    /\ shutdownCalls <= 1
    /\ Farewells <= shutdownCalls

\* Witness of C24: a handler failed during the run, and the run ended with
\* one call of shutdown() and its farewell.
C24_Witness ==
    /\ pc = "done"
    /\ handlerOutcome = "raised"
    /\ shutdownCalls = 1
    /\ Farewells = 1

\* C25: "Unmuted" is never said; on win32 and darwin the volume handler
\* answers a command holding 'unmute' with "Muted", unless the command
\* names a direction.
C25_UnmuteBranchUnreachable ==
    /\ \A k \in 1..Len(spoken) : spoken[k] # Say("Unmuted")
    /\ (cmd_type = "volume" /\ handlerOutcome = "ok" /\ In(<<"u", "n", "m", "u", "t", "e">>, command)
            /\ platform \in {"win32", "darwin"}) =>
           \/ spoken = <<Say("Muted")>>
           \/ /\ In(<<"u", "p">>, command) \/ In(<<"i", "n", "c", "r", "e", "a", "s", "e">>, command)
                    \/ In(<<"d", "o", "w", "n">>, command) \/ In(<<"d", "e", "c", "r", "e", "a", "s", "e">>, command)
              /\ spoken \in {<<Say("Volume increased")>>, <<Say("Volume decreased")>>}

\* Witness of C25: on win32 the command 'unmute' was answered by "Muted".
C25_Witness ==
    /\ command = <<"u", "n", "m", "u", "t", "e">>
    /\ platform = "win32"
    /\ handlerOutcome = "ok"
    /\ spoken = <<Say("Muted")>>
=============================================================================
